---- MODULE Spec2Model ----
(***************************************************************************)
(* rst2mdx: the block parser (parser.ts parseRST and its sub-parsers), the *)
(* inline markup processor (processInlineMarkup) and the renderer          *)
(* (converter.ts convertToMDX).                                            *)
(*                                                                         *)
(* Strings are TLA+ strings; Len, SubSeq and \o act on them as on          *)
(* sequences of characters.  JavaScript indices are 0-based: the cursor    *)
(* variables keep the 0-based values of the source and LineAt(lines, k)    *)
(* reads lines[k].                                                         *)
(***************************************************************************)
EXTENDS Integers, Sequences, FiniteSets, TLC

VARIABLES
  lines,                  \* parseRST: content.split("\n")
  i,                      \* parseRST: the line cursor (0-based)
  nodes,                  \* parseRST: the nodes pushed so far / convertToMDX input
  pc,                     \* position in the program
  wrapWidth,              \* convertToMDX: the wrap width option
  k,                      \* convertToMDX: index of the next node of the for loop
  mdx,                    \* convertToMDX: the output accumulator
  firstHeadingProcessed,  \* convertToMDX: the frontmatter flag
  parts,                  \* convertToMDX: what each loop iteration appended
  text,                   \* processInlineMarkup: its argument
  processedText,          \* processInlineMarkup: the text being rewritten
  processed,              \* processInlineMarkup: the placeholder map, in insertion order
  id,                     \* processInlineMarkup: the placeholder counter
  resolved                \* processInlineMarkup: entries the final for loop has visited

vars == <<lines, i, nodes, pc, wrapWidth, k, mdx, firstHeadingProcessed, parts,
          text, processedText, processed, id, resolved>>

---------------------------------------------------------------------------
(* Characters and the JavaScript string primitives the code uses.          *)

LowerAlphabet == "abcdefghijklmnopqrstuvwxyz"
UpperAlphabet == "ABCDEFGHIJKLMNOPQRSTUVWXYZ"
DigitAlphabet == "0123456789"

\* s.substring(m - 1, n): the characters at the 1-based positions m..n that exist
Sub(s, m, n) ==
  IF m > n \/ m > Len(s) \/ n < 1 THEN ""
  ELSE SubSeq(s, IF m < 1 THEN 1 ELSE m, IF n > Len(s) THEN Len(s) ELSE n)

\* s.charAt(p - 1): the empty string outside the string
Char(s, p) == Sub(s, p, p)

\* the backtick, which cannot stand alone in a string literal
BT == SubSeq("`'", 1, 1)

CharsOf(s) == {Char(s, p) : p \in 1..Len(s)}

LowerChars == CharsOf(LowerAlphabet)
UpperChars == CharsOf(UpperAlphabet)
DigitChars == CharsOf(DigitAlphabet)

\* \s of a JavaScript regular expression, and the set String.prototype.trim strips
SpaceChars == {" ", "\t", "\n", "\r"}

IsSpace(c) == c \in SpaceChars

\* Body with its parameter bound to the value v
With(v, Body(_)) == Body(v)

Least(S) == CHOOSE x \in S : \A y \in S : x <= y

Greatest(S) == CHOOSE x \in S : \A y \in S : x >= y

\* \w
IsWord(c) == c \in LowerChars \cup UpperChars \cup DigitChars \cup {"_"}

\* \d
IsDigit(c) == c \in DigitChars

IndexIn(alphabet, c) == CHOOSE p \in 1..Len(alphabet) : Char(alphabet, p) = c

lowerChar(c) == IF c \in UpperChars THEN Char(LowerAlphabet, IndexIn(UpperAlphabet, c)) ELSE c

upperChar(c) == IF c \in LowerChars THEN Char(UpperAlphabet, IndexIn(LowerAlphabet, c)) ELSE c

RECURSIVE toLowerCase(_)
toLowerCase(s) ==
  IF Len(s) <= 1 THEN lowerChar(s)
  ELSE toLowerCase(Sub(s, 1, Len(s) \div 2)) \o toLowerCase(Sub(s, Len(s) \div 2 + 1, Len(s)))

\* s.substring(n): the text from the 0-based index n on
substring(s, n) == Sub(s, n + 1, Len(s))

\* the text of s from the 1-based position p on
From(s, p) == Sub(s, p, Len(s))

startsWithAt(s, p, prefix) ==
  /\ p + Len(prefix) - 1 <= Len(s)
  /\ Sub(s, p, p + Len(prefix) - 1) = prefix

startsWith(s, prefix) == startsWithAt(s, 1, prefix)

includes(s, sub) == \E p \in 1..(Len(s) + 1) : startsWithAt(s, p, sub)

\* 1-based position of the first occurrence of sub in s at or after p, 0 when none
indexOfFrom(s, sub, p) ==
  With({q \in p..(Len(s) + 1) : startsWithAt(s, q, sub)}, LAMBDA hits :
    IF hits = {} THEN 0 ELSE Least(hits))

RECURSIVE repeat(_, _)
repeat(s, n) == IF n <= 0 THEN "" ELSE s \o repeat(s, n - 1)

\* length of the longest prefix of s, from position p, whose characters are not in stop
RunNotIn(s, p, stop) ==
  With({q \in p..Len(s) : Char(s, q) \in stop}, LAMBDA hits :
    IF hits # {} THEN Least(hits) - p
    ELSE IF p > Len(s) THEN 0 ELSE Len(s) - p + 1)

\* length of the longest prefix of s, from position p, whose characters are in keep
RunIn(s, p, keep) ==
  With({q \in p..Len(s) : Char(s, q) \notin keep}, LAMBDA hits :
    IF hits # {} THEN Least(hits) - p
    ELSE IF p > Len(s) THEN 0 ELSE Len(s) - p + 1)

\* length of the whitespace run of s from position p
RunSpace(s, p) == RunIn(s, p, SpaceChars)

\* number of leading whitespace characters: the length of the match of /^(\s+)/
LeadingSpace(s) == RunSpace(s, 1)

trimEnd(s) ==
  With({q \in 1..Len(s) : ~IsSpace(Char(s, q))}, LAMBDA solid :
    IF solid = {} THEN "" ELSE Sub(s, 1, Greatest(solid)))

trim(s) == trimEnd(From(s, LeadingSpace(s) + 1))

\* Number.prototype.toString of a non-negative integer
RECURSIVE toString(_)
toString(n) ==
  IF n < 10 THEN Char(DigitAlphabet, n + 1)
  ELSE toString(n \div 10) \o Char(DigitAlphabet, (n % 10) + 1)

\* Number.parseInt(s, 10) of a string of digits; NaN is modelled as 0 since
\* "#".repeat(NaN) is "#".repeat(0)
RECURSIVE parseDigits(_, _)
parseDigits(s, acc) ==
  IF s = "" \/ ~IsDigit(Char(s, 1)) THEN acc
  ELSE parseDigits(From(s, 2), 10 * acc + (IndexIn(DigitAlphabet, Char(s, 1)) - 1))

parseInt(s) == parseDigits(From(s, LeadingSpace(s) + 1), 0)

\* s.replace(/\s+/g, "-")
RECURSIVE slugSpaces(_)
slugSpaces(s) ==
  With(RunNotIn(s, 1, SpaceChars), LAMBDA n :
    IF n = Len(s) THEN s
    ELSE Sub(s, 1, n) \o "-" \o slugSpaces(From(s, n + 1 + RunSpace(s, n + 1))))

\* content.toLowerCase().replace(/\s+/g, "-")
slug(s) == slugSpaces(toLowerCase(s))

---------------------------------------------------------------------------
(* Inline markup processor: parser.ts processInlineMarkup.                 *)
(* A regular expression of the shape  open [^stop]+ close  matches at p    *)
(* exactly when the run of non-stop characters after open is non-empty and *)
(* close follows it: the run cannot be shortened, because close starts     *)
(* with a stop character.                                                  *)

\* the least element of S, 0 when S is empty
LeastOrZero(S) == IF S = {} THEN 0 ELSE Least(S)

\* a delimited pattern  open [^firstStop][^stop]* close  and what replaces its delimiters
Delimited(open, firstStop, stop, close, newOpen, newClose) ==
  [open |-> open, firstStop |-> firstStop, stop |-> stop, close |-> close,
   newOpen |-> newOpen, newClose |-> newClose]

\* length of the body the delimited pattern d matches at position p (0: no match)
DelimBody(s, p, d) ==
  IF ~startsWithAt(s, p, d.open) THEN 0
  ELSE With(RunNotIn(s, p + Len(d.open), d.stop), LAMBDA n :
         IF /\ n >= 1
            /\ Char(s, p + Len(d.open)) \notin d.firstStop
            /\ startsWithAt(s, p + Len(d.open) + n, d.close)
           THEN n ELSE 0)

\* s.replace(/open([^stop]+)close/g, newOpen + "$1" + newClose)
RECURSIVE ReplaceDelim(_, _)
ReplaceDelim(s, d) ==
  With(LeastOrZero({q \in 1..Len(s) : DelimBody(s, q, d) > 0}), LAMBDA q :
    IF q = 0 THEN s
    ELSE With(DelimBody(s, q, d), LAMBDA n :
           Sub(s, 1, q - 1) \o d.newOpen
           \o Sub(s, q + Len(d.open), q + Len(d.open) + n - 1) \o d.newClose
           \o ReplaceDelim(From(s, q + Len(d.open) + n + Len(d.close)), d)))

\* `__LINK_${id}__`
placeholder(n) == "__LINK_" \o toString(n) \o "__"

NoMatch == [ok |-> FALSE, len |-> 0, linkText |-> "", url |-> ""]

\* the match of /`([^`<>]+)\s+<([^>]+)>`(__?)/ at position p: run is the length of
\* [^`<>]+\s+ and urlRun that of [^>]+
ExternalLinkAt(s, p) ==
  IF Char(s, p) # BT THEN NoMatch
  ELSE With(RunNotIn(s, p + 1, {BT, "<", ">"}), LAMBDA run :
       With(RunNotIn(s, p + run + 2, {">"}), LAMBDA urlRun :
         IF /\ run >= 2
            /\ IsSpace(Char(s, p + run))
            /\ Char(s, p + run + 1) = "<"
            /\ urlRun >= 1
            /\ startsWithAt(s, p + run + urlRun + 2, ">" \o BT \o "_")
           THEN [ok |-> TRUE,
                 len |-> IF Char(s, p + run + urlRun + 5) = "_"
                           THEN run + urlRun + 6 ELSE run + urlRun + 5,
                 linkText |-> Sub(s, p + 1, p + run - 1),
                 url |-> Sub(s, p + run + 2, p + run + urlRun + 1)]
           ELSE NoMatch))

\* /`([^`]+)`_/
ReferenceLink == Delimited(BT, {}, {BT}, BT \o "_", "", "")

\* the match of /`([^`]+)`_/ at position p
ReferenceLinkAt(s, p) ==
  With(DelimBody(s, p, ReferenceLink), LAMBDA n :
    IF n > 0
      THEN [ok |-> TRUE, len |-> n + 3, linkText |-> Sub(s, p + 1, p + n), url |-> ""]
      ELSE NoMatch)

\* the rendering stored for an external link
externalRendering(linkText, url) == "[" \o trim(linkText) \o "](" \o trim(url) \o ")"

\* the rendering stored for a reference link
referenceRendering(linkText) ==
  With(trim(linkText), LAMBDA label : "[" \o label \o "](#" \o slug(label) \o ")")

\* the result of a protecting replace: a match at q replaced by the placeholder of id0,
\* followed by the result for the rest of the text
Protected(before, id0, rendering, rest) ==
  [out |-> before \o placeholder(id0) \o rest.out,
   id  |-> rest.id,
   map |-> << <<placeholder(id0), rendering>> >> \o rest.map]

\* the first replace of processInlineMarkup: external links to placeholders.
\* The result carries the rewritten text, the counter and the entries set.
RECURSIVE protectExternalLinks(_, _)
protectExternalLinks(s, id0) ==
  With(LeastOrZero({q \in 1..Len(s) : ExternalLinkAt(s, q).ok}), LAMBDA q :
    IF q = 0 THEN [out |-> s, id |-> id0, map |-> <<>>]
    ELSE With(ExternalLinkAt(s, q), LAMBDA m :
           Protected(Sub(s, 1, q - 1), id0, externalRendering(m.linkText, m.url),
                     protectExternalLinks(From(s, q + m.len), id0 + 1))))

\* the second replace: reference links `text`_ to placeholders
RECURSIVE protectReferenceLinks(_, _)
protectReferenceLinks(s, id0) ==
  With(LeastOrZero({q \in 1..Len(s) : ReferenceLinkAt(s, q).ok}), LAMBDA q :
    IF q = 0 THEN [out |-> s, id |-> id0, map |-> <<>>]
    ELSE With(ReferenceLinkAt(s, q), LAMBDA m :
           Protected(Sub(s, 1, q - 1), id0, referenceRendering(m.linkText),
                     protectReferenceLinks(From(s, q + m.len), id0 + 1))))

\* .replace(/\*\*([^*]+)\*\*/g, "**$1**")
replaceStrong(s) == ReplaceDelim(s, Delimited("**", {}, {"*"}, "**", "**", "**"))

\* .replace(/\*([^*]+)\*/g, "*$1*")
replaceEmphasis(s) == ReplaceDelim(s, Delimited("*", {}, {"*"}, "*", "*", "*"))

\* .replace(/``([^`]+)``/g, "`$1`")
replaceLiteral(s) == ReplaceDelim(s, Delimited(BT \o BT, {}, {BT}, BT \o BT, BT, BT))

\* .replace(/`([^`_][^`]*)`/g, "`$1`")
replaceInlineCode(s) == ReplaceDelim(s, Delimited(BT, {"_"}, {BT}, BT, BT, BT))

\* a string holds a line terminator, which "." does not match
HasLineBreak(s) == \E p \in 1..Len(s) : Char(s, p) \in {"\n", "\r"}

\* whether /^(.*?)\s*<\s*(class_[^>]+)\s*>\s*(.*)$/i matches s with its "<" at
\* position a; the result is the position of the closing ">" (0: no match)
ClassRefAt(s, a) ==
  IF Char(s, a) # "<" \/ HasLineBreak(trimEnd(Sub(s, 1, a - 1))) THEN 0
  ELSE With(a + 1 + RunSpace(s, a + 1), LAMBDA b :
       With(b + 6 + RunNotIn(s, b + 6, {">"}), LAMBDA gt :
         IF /\ toLowerCase(Sub(s, b, b + 5)) = "class_"
            /\ gt > b + 6
            /\ Char(s, gt) = ">"
            /\ ~HasLineBreak(From(s, gt + 1 + RunSpace(s, gt + 1)))
           THEN gt ELSE 0))

\* refContent.replace(/<.*?>/g, ""): every "<" up to the next ">" of its line is dropped
RECURSIVE removeAngles(_)
removeAngles(s) ==
  With(LeastOrZero({q \in 1..Len(s) :
         /\ Char(s, q) = "<"
         /\ Char(s, q + 1 + RunNotIn(s, q + 1, {">", "\n", "\r"})) = ">"}), LAMBDA q :
    IF q = 0 THEN s
    ELSE Sub(s, 1, q - 1)
         \o removeAngles(From(s, q + 2 + RunNotIn(s, q + 1, {">", "\n", "\r"}))))

\* the link formatClassReference returns when its pattern matches s with "<" at a
\* and ">" at gt
classLink(s, a, gt) ==
  With(trim(Sub(s, 1, a - 1)), LAMBDA displayText :
  With(trim(Sub(s, a + 1 + RunSpace(s, a + 1), gt - 1)), LAMBDA classIdentifier :
    "[" \o displayText \o "](" \o "/engine/classes/" \o toLowerCase(classIdentifier) \o ")"))

\* the link formatClassReference returns when its pattern does not match
fallbackLink(refContent) ==
  With(trim(removeAngles(refContent)), LAMBDA fallbackText :
    "[" \o fallbackText \o "](#" \o slug(fallbackText) \o ")")

\* formatClassReference(refContent)
formatClassReference(refContent) ==
  With(trim(refContent), LAMBDA s :
  With(LeastOrZero({a \in 1..Len(s) : ClassRefAt(s, a) > 0}), LAMBDA a :
    IF a > 0 THEN classLink(s, a, ClassRefAt(s, a)) ELSE fallbackLink(refContent)))

\* the callback of .replace(/:([a-z-]+):`([^`]+)`/g, ...): the text a role renders to
renderRole(role, content) ==
  CASE role = "code" -> BT \o content \o BT
    [] role \in {"em", "emphasis"} -> "*" \o content \o "*"
    [] role = "strong" -> "**" \o content \o "**"
    [] role = "literal" -> BT \o content \o BT
    [] role = "math" -> "$" \o content \o "$"
    [] role = "ref" ->
         IF includes(content, "<class_")
           THEN formatClassReference(content)
           ELSE "[" \o content \o "](#" \o slug(content) \o ")"
    [] role = "doc" -> "[" \o content \o "](" \o content \o ")"
    [] OTHER -> "<span className=\"" \o role \o "\">" \o content \o "</span>"

\* the content part  :`([^`]+)`  of the role pattern
RoleContent == Delimited(":" \o BT, {}, {BT}, BT, "", "")

\* the match of /:([a-z-]+):`([^`]+)`/ at position p: the lengths of the role name
\* and of the content (both 0 when there is no match)
RoleAt(s, p) ==
  With(RunIn(s, p + 1, LowerChars \cup {"-"}), LAMBDA r :
  With(DelimBody(s, p + 1 + r, RoleContent), LAMBDA n :
    IF Char(s, p) = ":" /\ r >= 1 /\ n > 0
      THEN [role |-> r, content |-> n] ELSE [role |-> 0, content |-> 0]))

\* .replace(/:([a-z-]+):`([^`]+)`/g, callback)
RECURSIVE replaceRoles(_)
replaceRoles(s) ==
  With(LeastOrZero({q \in 1..Len(s) : RoleAt(s, q).role > 0}), LAMBDA q :
    IF q = 0 THEN s
    ELSE With(RoleAt(s, q), LAMBDA m :
           Sub(s, 1, q - 1)
           \o renderRole(Sub(s, q + 1, q + m.role),
                         Sub(s, q + m.role + 3, q + m.role + m.content + 2))
           \o replaceRoles(From(s, q + m.role + m.content + 4))))

\* GetSubstitution of String.prototype.replace(string, string): the replacement
\* text with $$, $&, $` and $' expanded; there are no captures, so $1.. stay
RECURSIVE getSubstitution(_, _, _, _)
getSubstitution(replacement, matched, before, after) ==
  With(LeastOrZero({q \in 1..Len(replacement) :
         /\ Char(replacement, q) = "$"
         /\ Char(replacement, q + 1) \in {"$", "&", BT, "'"}}), LAMBDA q :
    IF q = 0 THEN replacement
    ELSE With(Char(replacement, q + 1), LAMBDA c :
           Sub(replacement, 1, q - 1)
           \o (CASE c = "$" -> "$"
                 [] c = "&" -> matched
                 [] c = BT -> before
                 [] c = "'" -> after)
           \o getSubstitution(From(replacement, q + 2), matched, before, after)))

\* s.replace(pattern, replacement) with a string pattern: the first occurrence only
replaceFirst(s, pattern, replacement) ==
  With(indexOfFrom(s, pattern, 1), LAMBDA p :
    IF p = 0 THEN s
    ELSE With(Sub(s, 1, p - 1), LAMBDA before :
         With(From(s, p + Len(pattern)), LAMBDA after :
           before \o getSubstitution(replacement, pattern, before, after) \o after)))

\* for (const [placeholder, replacement] of processed.entries()) ... from entry n on
RECURSIVE resolvePlaceholders(_, _, _)
resolvePlaceholders(s, map, n) ==
  IF n > Len(map) THEN s
  ELSE resolvePlaceholders(replaceFirst(s, map[n][1], map[n][2]), map, n + 1)

\* the five rewriting replaces between protection and resolution
rewriteMarkup(s) ==
  replaceRoles(replaceInlineCode(replaceLiteral(replaceEmphasis(replaceStrong(s)))))

processInlineMarkup(s) ==
  With(protectExternalLinks(s, 0), LAMBDA ext :
  With(protectReferenceLinks(ext.out, ext.id), LAMBDA ref :
    resolvePlaceholders(rewriteMarkup(ref.out), ext.map \o ref.map, 1)))

---------------------------------------------------------------------------
(* Block parser: parser.ts parseRST, getHeaderLevel, parseDirective,       *)
(* parseOptions, parseList, parseCodeBlock, parseParagraph.                *)

\* lines[n], n 0-based
LineAt(ls, n) == ls[n + 1]

\* lines[n].trim() === ""
IsBlankLine(ls, n) == trim(LineAt(ls, n)) = ""

\* the character class of /^[=\-`~:'"^_*+#<>]{3,}$/
UnderlineChars == {"=", "-", BT, "~", ":", "'", "\"", "^", "_", "*", "+", "#", "<", ">"}

\* /^[=\-`~:'"^_*+#<>]{3,}$/.test(s)
IsUnderline(s) == Len(s) >= 3 /\ \A p \in 1..Len(s) : Char(s, p) \in UnderlineChars

\* s.match(/^\.\.\s+_[a-z0-9_]+:/)
IsReferenceTarget(s) ==
  With(RunSpace(s, 3), LAMBDA w :
  With(RunIn(s, 4 + w, LowerChars \cup DigitChars \cup {"_"}), LAMBDA n :
    /\ startsWith(s, "..")
    /\ w >= 1
    /\ Char(s, 3 + w) = "_"
    /\ n >= 1
    /\ Char(s, 4 + w + n) = ":"))

levelMap ==
  [c \in {"=", "-", BT, ":", "'", "\"", "~", "*", "+", "^"} |->
     CASE c = "=" -> 1
       [] c = "-" -> 2
       [] c = BT -> 3
       [] c = ":" -> 4
       [] c = "'" -> 5
       [] c = "\"" -> 6
       [] c = "~" -> 3
       [] c = "*" -> 4
       [] c = "+" -> 5
       [] c = "^" -> 6]

\* getHeaderLevel with the fallback of the first level instead of the second
getHeaderLevelTopFallback(char) == IF char \in DOMAIN levelMap THEN levelMap[char] ELSE 1

getHeaderLevel(char) == IF char \in DOMAIN levelMap THEN levelMap[char] ELSE 2

\* an options object: a function from its keys to their values
EmptyOptions == [x \in {} |-> ""]

Option1(key, value) == [x \in {key} |-> value]

Option2(key1, value1, key2, value2) ==
  [x \in {key1, key2} |-> IF x = key1 THEN value1 ELSE value2]

\* content.split("\n")
RECURSIVE split(_)
split(s) ==
  With(RunNotIn(s, 1, {"\n"}), LAMBDA n :
    IF n = Len(s) THEN <<s>> ELSE <<Sub(s, 1, n)>> \o split(From(s, n + 2)))

\* the match of /^:([^:]+):\s*(.*)/ on a line: the key and the value
OptionMatch(line) ==
  With(RunNotIn(line, 2, {":"}), LAMBDA key :
  With(From(line, 3 + key + RunSpace(line, 3 + key)), LAMBDA rest :
    IF Char(line, 1) = ":" /\ key >= 1 /\ Char(line, 2 + key) = ":"
      THEN [ok |-> TRUE, key |-> Sub(line, 2, 1 + key),
            value |-> Sub(rest, 1, RunNotIn(rest, 1, {"\n", "\r"}))]
      ELSE [ok |-> FALSE, key |-> "", value |-> ""]))

\* options[key] = value
SetOption(options, key, value) ==
  [x \in DOMAIN options \cup {key} |-> IF x = key THEN value ELSE options[x]]

\* the loop of parseOptions over the first n lines
RECURSIVE parseOptionLines(_, _)
parseOptionLines(ls, n) ==
  IF n = 0 THEN EmptyOptions
  ELSE With(OptionMatch(ls[n]), LAMBDA match :
         IF match.ok
           THEN SetOption(parseOptionLines(ls, n - 1), trim(match.key), trim(match.value))
           ELSE parseOptionLines(ls, n - 1))

parseOptions(content) ==
  With(split(trim(content)), LAMBDA ls : parseOptionLines(ls, Len(ls)))

\* line.match(/^\.\.\s+(\w+)::(.*)/): directiveType is match[1], rest is match[2]
DirectiveMatch(line) ==
  With(RunSpace(line, 3), LAMBDA w :
  With(RunIn(line, 3 + w, LowerChars \cup UpperChars \cup DigitChars \cup {"_"}), LAMBDA n :
  With(From(line, 5 + w + n), LAMBDA rest :
    IF /\ startsWith(line, "..")
       /\ w >= 1
       /\ n >= 1
       /\ startsWithAt(line, 3 + w + n, "::")
      THEN [ok |-> TRUE, directiveType |-> Sub(line, 3 + w, 2 + w + n),
            rest |-> Sub(rest, 1, RunNotIn(rest, 1, {"\n", "\r"}))]
      ELSE [ok |-> FALSE, directiveType |-> "", rest |-> ""])))

\* the index of the first line at or after n that is not blank, lines.length when none
RECURSIVE nextNonEmpty(_, _)
nextNonEmpty(ls, n) ==
  IF n < Len(ls) /\ IsBlankLine(ls, n) THEN nextNonEmpty(ls, n + 1) ELSE n

\* the collecting loop of parseDirective from directiveEnd on
RECURSIVE collectDirective(_, _, _, _)
collectDirective(ls, directiveEnd, indentation, content) ==
  IF directiveEnd >= Len(ls) THEN [content |-> content, directiveEnd |-> directiveEnd]
  ELSE With(LineAt(ls, directiveEnd), LAMBDA currentLine :
       With(nextNonEmpty(ls, directiveEnd + 1), LAMBDA nextNonEmptyLine :
         IF trim(currentLine) = ""
           THEN IF /\ nextNonEmptyLine < Len(ls)
                   /\ ~startsWith(LineAt(ls, nextNonEmptyLine), repeat(" ", indentation))
                  THEN [content |-> content, directiveEnd |-> directiveEnd]
                  ELSE collectDirective(ls, directiveEnd + 1, indentation, content \o "\n")
           ELSE IF ~startsWith(currentLine, repeat(" ", indentation))
                  THEN [content |-> content, directiveEnd |-> directiveEnd]
                  ELSE collectDirective(ls, directiveEnd + 1, indentation,
                                        content \o substring(currentLine, indentation) \o "\n")))

\* the node parseDirective returns once the content is collected (the switch)
directiveNode(directiveType, directiveArg, content) ==
  CASE directiveType \in {"code-block", "code"} ->
         [type |-> "codeBlock", content |-> trim(content),
          options |-> Option1("language", IF directiveArg = "" THEN "text" ELSE directiveArg)]
    [] directiveType = "image" ->
         [type |-> "image", content |-> directiveArg, options |-> parseOptions(content)]
    [] directiveType \in {"note", "warning", "danger", "tip"} ->
         [type |-> "admonition", content |-> trim(content),
          options |-> Option1("kind", directiveType)]
    [] OTHER ->
         [type |-> "directive", content |-> trim(content),
          options |-> Option2("name", directiveType, "argument", directiveArg)]

\* the node parseDirective returns when no indented content was found
emptyDirectiveNode(directiveType, directiveArg) ==
  IF directiveType = "image"
    THEN [type |-> "image", content |-> directiveArg, options |-> EmptyOptions]
    ELSE [type |-> "directive", content |-> "",
          options |-> Option2("name", directiveType, "argument", directiveArg)]

\* parseDirective once the directive line matched: first is the cursor after the
\* loop that looks for the content
parseDirectiveContent(ls, directiveType, directiveArg, first) ==
  With(IF first < Len(ls) THEN LeadingSpace(LineAt(ls, first)) ELSE 0, LAMBDA indentation :
    IF ~(first < Len(ls) /\ indentation > 0)
      THEN [node |-> emptyDirectiveNode(directiveType, directiveArg), nextLine |-> first]
      ELSE With(collectDirective(ls, first, indentation, ""), LAMBDA got :
             [node |-> directiveNode(directiveType, directiveArg, got.content),
              nextLine |-> got.directiveEnd]))

\* parseDirective whose fallback for an unmatched line does not consume the line
parseDirectiveStuck(ls, startLine) ==
  With(trim(LineAt(ls, startLine)), LAMBDA line :
  With(DirectiveMatch(line), LAMBDA match :
    IF ~match.ok
      THEN [node |-> [type |-> "paragraph", content |-> line], nextLine |-> startLine]
      ELSE parseDirectiveContent(ls, match.directiveType, trim(match.rest),
                                 nextNonEmpty(ls, startLine + 1))))

parseDirective(ls, startLine) ==
  With(trim(LineAt(ls, startLine)), LAMBDA line :
  With(DirectiveMatch(line), LAMBDA match :
    IF ~match.ok
      THEN [node |-> [type |-> "paragraph", content |-> line], nextLine |-> startLine + 1]
      ELSE parseDirectiveContent(ls, match.directiveType, trim(match.rest),
                                 nextNonEmpty(ls, startLine + 1))))

\* pattern.toString() of the two patterns parseRST passes to parseList
BulletPattern == "/^[*\\-+]\\s/"
EnumPattern == "/^\\d+\\.\\s/"

\* the length of the match of pattern at the start of line, 0 when it does not match
markerLength(line, pattern) ==
  IF pattern = BulletPattern
    THEN IF Char(line, 1) \in {"*", "-", "+"} /\ IsSpace(Char(line, 2)) THEN 2 ELSE 0
    ELSE With(RunIn(line, 1, DigitChars), LAMBDA d :
           IF d >= 1 /\ Char(line, d + 1) = "." /\ IsSpace(Char(line, d + 2))
             THEN d + 2 ELSE 0)

\* the list item pushed for a line that matches the pattern
listItem(line, pattern) ==
  [type |-> "listItem",
   content |-> processInlineMarkup(trim(From(line, markerLength(line, pattern) + 1)))]

\* the loop of parseList ending at the first line that is not an item, without
\* looking past blank lines
RECURSIVE parseListLoopNoLookahead(_, _, _, _)
parseListLoopNoLookahead(ls, n, pattern, items) ==
  IF n >= Len(ls) THEN [items |-> items, nextLine |-> n]
  ELSE With(trim(LineAt(ls, n)), LAMBDA line :
         IF line = "" \/ markerLength(line, pattern) = 0
           THEN [items |-> items, nextLine |-> n]
           ELSE parseListLoopNoLookahead(ls, n + 1, pattern,
                                         Append(items, listItem(line, pattern))))

\* the loop of parseList from line n on, with the items pushed so far
RECURSIVE parseListLoop(_, _, _, _)
parseListLoop(ls, n, pattern, items) ==
  IF n >= Len(ls) THEN [items |-> items, nextLine |-> n]
  ELSE With(trim(LineAt(ls, n)), LAMBDA line :
       With(nextNonEmpty(ls, n), LAMBDA next :
         IF line = "" \/ markerLength(line, pattern) = 0
           THEN IF next < Len(ls) /\ markerLength(trim(LineAt(ls, next)), pattern) > 0
                  THEN parseListLoop(ls, next, pattern, items)
                  ELSE [items |-> items, nextLine |-> n]
           ELSE parseListLoop(ls, n + 1, pattern, Append(items, listItem(line, pattern)))))

parseList(ls, startLine, pattern) ==
  With(parseListLoop(ls, startLine, pattern, <<>>), LAMBDA got :
    [node |-> [type |-> IF includes(pattern, "\\d+") THEN "orderedList" ELSE "unorderedList",
               children |-> got.items],
     nextLine |-> got.nextLine])

\* the loop of parseCodeBlock from line n on
RECURSIVE parseCodeBlockLoop(_, _, _)
parseCodeBlockLoop(ls, n, content) ==
  IF n < Len(ls) /\ (startsWith(LineAt(ls, n), "    ") \/ IsBlankLine(ls, n))
    THEN parseCodeBlockLoop(ls, n + 1,
           IF ~IsBlankLine(ls, n) THEN content \o substring(LineAt(ls, n), 4) \o "\n"
           ELSE content \o "\n")
    ELSE [content |-> content, nextLine |-> n]

parseCodeBlock(ls, startLine) ==
  With(parseCodeBlockLoop(ls, startLine, ""), LAMBDA got :
    [node |-> [type |-> "codeBlock", content |-> trim(got.content),
               options |-> Option1("language", "text")],
     nextLine |-> got.nextLine])

\* the loop of parseParagraph from line n on
RECURSIVE parseParagraphLoop(_, _, _)
parseParagraphLoop(ls, n, content) ==
  IF n < Len(ls) /\ ~IsBlankLine(ls, n)
    THEN parseParagraphLoop(ls, n + 1,
           content \o (IF content # "" THEN " " ELSE "") \o trim(LineAt(ls, n)))
    ELSE [content |-> content, nextLine |-> n]

\* parseParagraph returning the index two past its terminating line
parseParagraphOvershoot(ls, startLine) ==
  With(parseParagraphLoop(ls, startLine, ""), LAMBDA got :
    [node |-> [type |-> "paragraph", content |-> processInlineMarkup(got.content)],
     nextLine |-> got.nextLine + 2])

parseParagraph(ls, startLine) ==
  With(parseParagraphLoop(ls, startLine, ""), LAMBDA got :
    [node |-> [type |-> "paragraph", content |-> processInlineMarkup(got.content)],
     nextLine |-> got.nextLine + 1])

---------------------------------------------------------------------------
(* Renderer: converter.ts convertToMDX, convertNode and the per-kind       *)
(* converters.  wrap is the word-wrap package the converter imports.       *)

\* the length of the match of word-wrap's line pattern
\*   .{1,width}([\s]+|$)|[^\s]+?([\s]+|$)
\* at position p of s, trying j characters for the first alternative; 0: no match
RECURSIVE wrapFirstAlternative(_, _, _)
wrapFirstAlternative(s, p, j) ==
  IF j < 1 THEN 0
  ELSE With(RunSpace(s, p + j), LAMBDA space :
         IF space >= 1 THEN j + space
         ELSE IF p + j = Len(s) + 1 THEN j
         ELSE wrapFirstAlternative(s, p, j - 1))

wrapMatchLength(s, p, width) ==
  With(RunNotIn(s, p, {"\n", "\r"}), LAMBDA dots :
  With(wrapFirstAlternative(s, p, IF dots < width THEN dots ELSE width), LAMBDA first :
  With(RunNotIn(s, p, SpaceChars), LAMBDA word :
    IF first > 0 THEN first
    ELSE IF word >= 1 THEN word + RunSpace(s, p + word)
    ELSE 0)))

\* a matched line with one trailing "\n" sliced off
wrapLine(line) ==
  IF Char(line, Len(line)) = "\n" THEN Sub(line, 1, Len(line) - 1) ELSE line

\* str.match(re) of word-wrap, each line with one trailing "\n" sliced off
RECURSIVE wrapLines(_, _, _)
wrapLines(s, p, width) ==
  IF p > Len(s) THEN <<>>
  ELSE With(wrapMatchLength(s, p, width), LAMBDA n :
         IF n = 0 THEN wrapLines(s, p + 1, width)
         ELSE <<wrapLine(Sub(s, p, p + n - 1))>> \o wrapLines(s, p + n, width))

\* array.join(sep)
RECURSIVE join(_, _)
join(ss, sep) ==
  IF ss = <<>> THEN ""
  ELSE IF Len(ss) = 1 THEN ss[1]
  ELSE ss[1] \o sep \o join(Tail(ss), sep)

\* wrap(str, { width, indent })
wrap(str, width, indent) == indent \o join(wrapLines(str, 1, width), "\n" \o indent)

\* node.content || ""
contentOf(node) == IF "content" \in DOMAIN node THEN node.content ELSE ""

\* node.options?.[key] || fallback
optionOf(node, key, fallback) ==
  IF "options" \in DOMAIN node /\ key \in DOMAIN node.options /\ node.options[key] # ""
    THEN node.options[key] ELSE fallback

\* string.charAt(0).toUpperCase() + string.slice(1)
capitalizeFirstLetter(string) == upperChar(Char(string, 1)) \o From(string, 2)

\* `${node.content}`: a missing content prints as "undefined"
interpolated(node) == IF "content" \in DOMAIN node THEN node.content ELSE "undefined"

convertHeading(node) ==
  repeat("#", parseInt(optionOf(node, "level", "2"))) \o " " \o interpolated(node)

convertParagraph(node, width) ==
  IF width > 0 THEN wrap(contentOf(node), width, "") ELSE contentOf(node)

convertListItem(node) == contentOf(node)

convertCodeBlock(node) ==
  BT \o BT \o BT \o optionOf(node, "language", "") \o "\n" \o contentOf(node)
     \o "\n" \o BT \o BT \o BT

\* src.split("/").pop() || ""
RECURSIVE lastSegment(_)
lastSegment(src) ==
  With(RunNotIn(src, 1, {"/"}), LAMBDA n :
    IF n = Len(src) THEN src ELSE lastSegment(From(src, n + 2)))

\* filename.replace(/\.[^/.]+$/, "")
stripExtension(filename) ==
  With({p \in 1..(Len(filename) - 1) :
          /\ Char(filename, p) = "."
          /\ RunNotIn(filename, p + 1, {"/", "."}) = Len(filename) - p}, LAMBDA dots :
    IF dots = {} THEN filename ELSE Sub(filename, 1, Least(dots) - 1))

\* alt.replace(/[_-]/g, " ")
RECURSIVE spaceSeparators(_)
spaceSeparators(s) ==
  IF Len(s) <= 1 THEN (IF s \in {"_", "-"} THEN " " ELSE s)
  ELSE spaceSeparators(Sub(s, 1, Len(s) \div 2))
       \o spaceSeparators(Sub(s, Len(s) \div 2 + 1, Len(s)))

\* the alt text derived from the source path
derivedAlt(src) ==
  capitalizeFirstLetter(spaceSeparators(stripExtension(lastSegment(src))))

convertImage(node) ==
  With(contentOf(node), LAMBDA src :
  With(optionOf(node, "alt", ""), LAMBDA given :
    "![" \o (IF given # "" THEN given ELSE derivedAlt(src)) \o "](" \o src \o ")"))

\* wrapWidth > 0 ? wrap(content, { width: wrapWidth, indent: "" }) : content
reflow(content, width) == IF width > 0 THEN wrap(content, width, "") ELSE content

convertAdmonition(node, width) ==
  With(optionOf(node, "kind", "note"), LAMBDA kind :
    "<Admonition type=\"" \o kind \o "\" title=\"" \o capitalizeFirstLetter(kind) \o "\">\n\n"
    \o reflow(contentOf(node), width) \o "\n\n</Admonition>")

\* the list of kinds of the converter version that renders ":::" containers
validKinds == {"note", "warning", "danger", "tip"}

\* convertAdmonition of that version: the kind is coerced into validKinds
convertAdmonitionFenced(node, width) ==
  With(optionOf(node, "kind", "note"), LAMBDA rawKind :
  With(IF rawKind \in validKinds THEN rawKind ELSE "note", LAMBDA kind :
    ":::" \o kind \o "\n\n" \o reflow(contentOf(node), width) \o "\n\n:::"))

convertDirective(node, width) ==
  With(optionOf(node, "name", ""), LAMBDA name :
  With(optionOf(node, "argument", ""), LAMBDA argument :
    CASE name = "include" -> "{/* Include: " \o argument \o " */}"
      [] name = "toctree" -> "{/* Table of Contents */}"
      [] OTHER -> "{/*\nDirective: " \o name \o "\nArgument: " \o argument
                  \o "\nContent:\n" \o reflow(contentOf(node), width) \o "\n*/}"))

\* convertNode for the kinds that have no children; the children of a list are
\* rendered through it, parseList pushing list items only
convertLeaf(node, width) ==
  CASE node.type = "heading" -> convertHeading(node)
    [] node.type = "paragraph" -> convertParagraph(node, width)
    [] node.type = "listItem" -> convertListItem(node)
    [] node.type = "codeBlock" -> convertCodeBlock(node)
    [] node.type = "image" -> convertImage(node)
    [] node.type = "admonition" -> convertAdmonition(node, width)
    [] node.type = "directive" -> convertDirective(node, width)
    [] OTHER -> IF width > 0 THEN wrap(contentOf(node), width, "  ") ELSE contentOf(node)

\* node.children.map((item, index) => prefix + convertNode(item, wrapWidth))
renderItems(node, width, ordered) ==
  [n \in 1..Len(node.children) |->
     (IF ordered THEN toString(n) \o ". " ELSE "- ")
     \o convertLeaf(node.children[n], width)]

convertUnorderedList(node, width) ==
  IF "children" \notin DOMAIN node THEN "" ELSE join(renderItems(node, width, FALSE), "\n")

convertOrderedList(node, width) ==
  IF "children" \notin DOMAIN node THEN "" ELSE join(renderItems(node, width, TRUE), "\n")

convertNode(node, width) ==
  CASE node.type = "unorderedList" -> convertUnorderedList(node, width)
    [] node.type = "orderedList" -> convertOrderedList(node, width)
    [] OTHER -> convertLeaf(node, width)

\* the frontmatter block convertToMDX appends for the first heading
frontmatter(node) == "---\ntitle: " \o interpolated(node) \o "\n---\n\n"

---------------------------------------------------------------------------
(* Inputs.                                                                 *)

MaxLines == 4
MaxNodes == 3
MaxFragments == 3

\* the sequences over S of length 1..n
BoundedSeq(S, n) == UNION {[1..m -> S] : m \in 1..n}

\* `s`
Quoted(s) == BT \o s \o BT

CodeLines == {".. code-block:: python", ".. code:: python", "", "    x = 1"}

\* a code directive with or without an argument, and what may follow it
CodeDocs ==
  {<<".. " \o name \o "::" \o arg>> \o body :
     name \in {"code-block", "code"}, arg \in {"", " python"},
     body \in {<<>>, <<"", "    x = 1", "">>, <<"    x = 1">>, <<"", "Next">>}}

DirectiveLines == {".. note::", ".. image:: a_b.png", "", "    Careful."}

AdmonitionNames == {"note", "warning", "danger", "tip"}

AdmonitionDocs ==
  {<<".. " \o name \o "::" \o arg>> \o body :
     name \in AdmonitionNames, arg \in {"", " Hint"},
     body \in {<<>>, <<"">>, <<"", "    Careful.">>, <<"    Careful.", "">>, <<"", "Next">>}}

ListLines == {"- a", "* *b*", "1. x", ""}

MixedLines == {"Title", "====", "", "+ c"}

HeadingDocs ==
  {before \o <<"Title", repeat(c, n)>> \o after :
     before \in {<<>>, <<"">>, <<".. _doc_1:", "">>},
     c \in UnderlineChars, n \in {3},
     after \in {<<>>, <<"">>, <<"Sub", "---">>}}

Documents ==
  BoundedSeq(CodeLines, MaxLines) \cup BoundedSeq(DirectiveLines, MaxLines)
  \cup BoundedSeq(ListLines, MaxLines) \cup BoundedSeq(MixedLines, MaxLines)
  \cup CodeDocs \cup AdmonitionDocs \cup HeadingDocs

\* the wrap widths tried: wrapping disabled, and a width narrower than the contents
WrapWidths == {0, 6}

---------------------------------------------------------------------------
(* The conversion of one document: convertFile of index.ts calls parseRST  *)
(* and hands its nodes to convertToMDX.                                    *)

InlineIdle ==
  /\ text = "" /\ processedText = "" /\ processed = <<>> /\ id = 0 /\ resolved = 0

ConvertIdle ==
  /\ k = 0 /\ mdx = "" /\ firstHeadingProcessed = FALSE /\ parts = <<>>

Init ==
  /\ lines \in Documents
  /\ wrapWidth = 0
  /\ i = 0
  /\ nodes = <<>>
  /\ pc = "skip"
  /\ ConvertIdle
  /\ InlineIdle

\* the conditions of the if-chain of the main loop, at cursor n
AtBlank(ls, n) == trim(LineAt(ls, n)) = ""

AtHeading(ls, n) == n + 1 < Len(ls) /\ IsUnderline(trim(LineAt(ls, n + 1)))

AtDirective(ls, n) ==
  startsWith(trim(LineAt(ls, n)), ".. ") /\ includes(trim(LineAt(ls, n)), "::")

AtBullet(ls, n) == markerLength(trim(LineAt(ls, n)), BulletPattern) > 0

AtEnumerated(ls, n) == markerLength(trim(LineAt(ls, n)), EnumPattern) > 0

\* i > 0 && lines[i - 1].trim() === "" && line.startsWith("    "), line being trimmed
AtLiteralBlock(ls, n) ==
  n > 0 /\ IsBlankLine(ls, n - 1) /\ startsWith(trim(LineAt(ls, n)), "    ")

\* the heading node pushed at cursor n
headingNode(ls, n) ==
  [type |-> "heading", content |-> trim(LineAt(ls, n)),
   options |-> Option1("level", toString(getHeaderLevel(Char(trim(LineAt(ls, n + 1)), 1))))]

\* the if-chain with the bullet test moved before the heading test
branchAtBulletFirst(ls, n) ==
  IF AtBlank(ls, n) THEN "empty"
  ELSE IF AtBullet(ls, n) THEN "bullet"
  ELSE IF AtHeading(ls, n) THEN "heading"
  ELSE IF AtDirective(ls, n) THEN "directive"
  ELSE IF AtEnumerated(ls, n) THEN "enumerated"
  ELSE IF AtLiteralBlock(ls, n) THEN "literal"
  ELSE "paragraph"

\* the name of the branch of the main loop taken at cursor n: the first whose
\* condition holds
branchAt(ls, n) ==
  IF AtBlank(ls, n) THEN "empty"
  ELSE IF AtHeading(ls, n) THEN "heading"
  ELSE IF AtDirective(ls, n) THEN "directive"
  ELSE IF AtBullet(ls, n) THEN "bullet"
  ELSE IF AtEnumerated(ls, n) THEN "enumerated"
  ELSE IF AtLiteralBlock(ls, n) THEN "literal"
  ELSE "paragraph"

\* one iteration of the main loop at cursor n: the nodes pushed and the next cursor
recognize(ls, n) ==
  With(branchAt(ls, n), LAMBDA branch :
    CASE branch = "empty" -> [push |-> <<>>, nextLine |-> n + 1]
      [] branch = "heading" -> [push |-> <<headingNode(ls, n)>>, nextLine |-> n + 2]
      [] OTHER ->
           With(CASE branch = "directive" -> parseDirective(ls, n)
                  [] branch = "bullet" -> parseList(ls, n, BulletPattern)
                  [] branch = "enumerated" -> parseList(ls, n, EnumPattern)
                  [] branch = "literal" -> parseCodeBlock(ls, n)
                  [] OTHER -> parseParagraph(ls, n),
                LAMBDA found : [push |-> <<found.node>>, nextLine |-> found.nextLine]))

\* the leading while loop: the first cursor that is neither blank nor a reference target
RECURSIVE skipLeading(_, _)
skipLeading(ls, n) ==
  IF n < Len(ls) /\ (trim(LineAt(ls, n)) = "" \/ IsReferenceTarget(trim(LineAt(ls, n))))
    THEN skipLeading(ls, n + 1) ELSE n

\* the main loop from cursor n on, with the nodes pushed so far
RECURSIVE parseFrom(_, _, _)
parseFrom(ls, n, acc) ==
  IF n >= Len(ls) THEN acc
  ELSE With(recognize(ls, n), LAMBDA step : parseFrom(ls, step.nextLine, acc \o step.push))

\* parseRST on the lines of its argument
parseRST(ls) == parseFrom(ls, skipLeading(ls, 0), <<>>)

ParserUnchanged ==
  UNCHANGED <<lines, wrapWidth, k, mdx, firstHeadingProcessed, parts,
              text, processedText, processed, id, resolved>>

\* whether the leading while loop goes on at the cursor
LeadingSkips ==
  /\ i < Len(lines)
  /\ (trim(LineAt(lines, i)) = "" \/ IsReferenceTarget(trim(LineAt(lines, i))))

\* one iteration of the leading while loop
SkipLeading ==
  /\ pc = "skip"
  /\ LeadingSkips
  /\ i' = i + 1
  /\ UNCHANGED <<nodes, pc>>
  /\ ParserUnchanged

\* the leading while loop ends
EnterMainLoop ==
  /\ pc = "skip"
  /\ ~LeadingSkips
  /\ pc' = "parse"
  /\ UNCHANGED <<i, nodes>>
  /\ ParserUnchanged

\* the main loop is at a line and takes one of the named branches
Taking(branches) == pc = "parse" /\ i < Len(lines) /\ branchAt(lines, i) \in branches

\* nodes.push(found.node); i = found.nextLine; continue
Push(found) ==
  /\ nodes' = Append(nodes, found.node)
  /\ i' = found.nextLine
  /\ UNCHANGED pc
  /\ ParserUnchanged

SkipEmptyLine ==
  /\ Taking({"empty"})
  /\ i' = i + 1
  /\ UNCHANGED <<nodes, pc>>
  /\ ParserUnchanged

PushHeading ==
  /\ Taking({"heading"})
  /\ Push([node |-> headingNode(lines, i), nextLine |-> i + 2])

PushDirective ==
  /\ Taking({"directive"})
  /\ Push(parseDirective(lines, i))

PushBulletList ==
  /\ Taking({"bullet"})
  /\ Push(parseList(lines, i, BulletPattern))

PushEnumeratedList ==
  /\ Taking({"enumerated"})
  /\ Push(parseList(lines, i, EnumPattern))

\* the last two branches of the chain: the literal block, else the paragraph
PushBlock ==
  /\ Taking({"literal", "paragraph"})
  /\ Push(IF AtLiteralBlock(lines, i) THEN parseCodeBlock(lines, i)
          ELSE parseParagraph(lines, i))

\* parseRST returns; convertFile hands its nodes and the width option to convertToMDX
ParseReturn ==
  /\ pc = "parse" /\ i >= Len(lines)
  /\ pc' = "convert"
  /\ wrapWidth' \in WrapWidths
  /\ UNCHANGED <<i, nodes, lines, k, mdx, firstHeadingProcessed, parts,
                 text, processedText, processed, id, resolved>>

ConverterUnchanged ==
  UNCHANGED <<lines, i, nodes, wrapWidth, text, processedText, processed, id, resolved>>

\* the loop body without the flag: every heading becomes a frontmatter block
appendedEveryHeading(node, first, width) ==
  IF node.type = "heading"
    THEN [frontmatter |-> TRUE, text |-> frontmatter(node)]
    ELSE [frontmatter |-> FALSE, text |-> convertNode(node, width) \o "\n\n"]

\* what one iteration of the for loop of convertToMDX appends for node
appended(node, first, width) ==
  IF node.type = "heading" /\ first
    THEN [frontmatter |-> TRUE, text |-> frontmatter(node)]
    ELSE [frontmatter |-> FALSE, text |-> convertNode(node, width) \o "\n\n"]

\* mdx += piece.text
Emit(piece) ==
  /\ mdx' = mdx \o piece.text
  /\ firstHeadingProcessed' = (firstHeadingProcessed \/ piece.frontmatter)
  /\ parts' = Append(parts, piece)

\* one iteration of the for loop of convertToMDX
ConvertNext ==
  /\ pc = "convert" /\ k < Len(nodes)
  /\ Emit(appended(nodes[k + 1], ~firstHeadingProcessed, wrapWidth))
  /\ k' = k + 1
  /\ UNCHANGED pc
  /\ ConverterUnchanged

\* return mdx.trim()
ConvertReturn ==
  /\ pc = "convert" /\ k >= Len(nodes)
  /\ mdx' = trim(mdx)
  /\ pc' = "done"
  /\ UNCHANGED <<k, firstHeadingProcessed, parts>>
  /\ ConverterUnchanged

Next ==
  \/ SkipLeading
  \/ EnterMainLoop
  \/ SkipEmptyLine
  \/ PushHeading
  \/ PushDirective
  \/ PushBulletList
  \/ PushEnumeratedList
  \/ PushBlock
  \/ ParseReturn
  \/ ConvertNext
  \/ ConvertReturn

Spec == Init /\ [][Next]_vars

---------------------------------------------------------------------------
(* convertToMDX on its own: it is exported and takes any node sequence.    *)

ParserIdle ==
  /\ lines = <<"">> /\ i = 0

Heading(content, level) ==
  [type |-> "heading", content |-> content, options |-> Option1("level", level)]

Paragraph(content) == [type |-> "paragraph", content |-> content]

ListItem(content) == [type |-> "listItem", content |-> content]

\* the nodes the sequences handed to convertToMDX are made of
NodeCatalogue ==
  { Heading("Title", "1"),
    Heading("Deep", "6"),
    Paragraph("Intro text"),
    Paragraph(""),
    [type |-> "unorderedList", children |-> <<>>],
    [type |-> "orderedList", children |-> <<ListItem("Intro text"), ListItem("b")>>],
    [type |-> "codeBlock", content |-> "x = 1", options |-> Option1("language", "python")],
    [type |-> "admonition", content |-> "Careful.", options |-> Option1("kind", "tip")],
    [type |-> "admonition", content |-> "Careful.", options |-> Option1("kind", "caution")] }

InitRender ==
  /\ nodes \in BoundedSeq(NodeCatalogue, MaxNodes)
  /\ wrapWidth \in WrapWidths
  /\ pc = "convert"
  /\ ParserIdle
  /\ ConvertIdle
  /\ InlineIdle

NextRender ==
  \/ ConvertNext
  \/ ConvertReturn

SpecRender == InitRender /\ [][NextRender]_vars

---------------------------------------------------------------------------
(* processInlineMarkup on its own, one statement at a time.                *)

\* the pieces the texts handed to processInlineMarkup are made of
InlineFragments ==
  { ":ref:" \o Quoted("Enemy <class_Enemy>"),
    ":ref:" \o Quoted("Enemy <class_Enemy> foo"),
    Quoted("a <u>") \o "_",
    Quoted("*b* <v$&>") \o "__",
    Quoted("c d") \o "_",
    " **s** ",
    BT \o "x ",
    BT \o "_" }

RECURSIVE concat(_)
concat(ss) == IF ss = <<>> THEN "" ELSE ss[1] \o concat(Tail(ss))

InlineTexts == {concat(ss) : ss \in BoundedSeq(InlineFragments, MaxFragments)}

\* const processed = new Map(); let processedText = text; let id = 0;
InitInline ==
  /\ text \in InlineTexts
  /\ processedText = text
  /\ processed = <<>>
  /\ id = 0
  /\ resolved = 0
  /\ pc = "externalLinks"
  /\ ParserIdle
  /\ nodes = <<>>
  /\ wrapWidth = 0
  /\ ConvertIdle

InlineUnchanged ==
  UNCHANGED <<lines, i, nodes, wrapWidth, k, mdx, firstHeadingProcessed, parts, text>>

\* a protecting replace ran: its text, the counter and the entries it set
Protect(got) ==
  /\ processedText' = got.out
  /\ id' = got.id
  /\ processed' = processed \o got.map

\* a rewriting replace ran
Rewrite(result) ==
  /\ processedText' = result
  /\ UNCHANGED <<processed, id>>

\* the statement at position from ran and the one at position to is next
Goto(from, to) ==
  /\ pc = from
  /\ pc' = to
  /\ UNCHANGED resolved
  /\ InlineUnchanged

ProtectExternalLinks ==
  /\ Goto("externalLinks", "referenceLinks")
  /\ Protect(protectExternalLinks(processedText, id))

ProtectReferenceLinks ==
  /\ Goto("referenceLinks", "strong")
  /\ Protect(protectReferenceLinks(processedText, id))

ReplaceStrong ==
  /\ Goto("strong", "emphasis")
  /\ Rewrite(replaceStrong(processedText))

ReplaceEmphasis ==
  /\ Goto("emphasis", "literal")
  /\ Rewrite(replaceEmphasis(processedText))

ReplaceLiteral ==
  /\ Goto("literal", "inlineCode")
  /\ Rewrite(replaceLiteral(processedText))

ReplaceInlineCode ==
  /\ Goto("inlineCode", "roles")
  /\ Rewrite(replaceInlineCode(processedText))

ReplaceRoles ==
  /\ Goto("roles", "resolve")
  /\ Rewrite(replaceRoles(processedText))

\* one iteration of the for loop over processed.entries()
ResolvePlaceholder ==
  /\ pc = "resolve" /\ resolved < Len(processed)
  /\ Rewrite(replaceFirst(processedText, processed[resolved + 1][1],
                          processed[resolved + 1][2]))
  /\ resolved' = resolved + 1
  /\ UNCHANGED pc
  /\ InlineUnchanged

\* return processedText
InlineReturn ==
  /\ pc = "resolve" /\ resolved >= Len(processed)
  /\ pc' = "returned"
  /\ UNCHANGED <<processedText, processed, id, resolved>>
  /\ InlineUnchanged

NextInline ==
  \/ ProtectExternalLinks
  \/ ProtectReferenceLinks
  \/ ReplaceStrong
  \/ ReplaceEmphasis
  \/ ReplaceLiteral
  \/ ReplaceInlineCode
  \/ ReplaceRoles
  \/ ResolvePlaceholder
  \/ InlineReturn

SpecInline == InitInline /\ [][NextInline]_vars

---------------------------------------------------------------------------
(* Properties.                                                             *)

\* parseRST has returned
Parsed == pc \in {"convert", "done"}

\* the non-blank lines of ls, in order
dense(ls) == SelectSeq(ls, LAMBDA l : trim(l) # "")

\* the positions of the heading nodes of ns
HeadingsOf(ns) == {n \in 1..Len(ns) : ns[n].type = "heading"}

\* ---- C1 ----------------------------------------------------------------
\* the argument of a directive line:  .. name:: argument
ArgumentOf(line) == trim(From(line, indexOfFrom(line, "::", 1) + 2))

\* a code directive line followed by an indented body: the first line opens a
\* code-block or code directive, one line is the indented statement, the rest
\* are blank
CodeDirectiveInput(ls) ==
  /\ \/ startsWith(ls[1], ".. code-block::")
     \/ startsWith(ls[1], ".. code::")
  /\ Len(dense(ls)) = 2
  /\ dense(ls)[2] = "    x = 1"

\* C1: a `.. code-block:: <arg>` or `.. code:: <arg>` line followed by an
\* indented body parses to exactly one CodeBlock node whose language is the
\* argument ("text" when it is empty) and whose content is the body without
\* its indentation.
C1_CodeDirectiveYieldsCodeBlock ==
  (Parsed /\ CodeDirectiveInput(lines)) =>
    nodes = << [type |-> "codeBlock", content |-> "x = 1",
                options |-> Option1("language",
                              IF ArgumentOf(lines[1]) = "" THEN "text"
                              ELSE ArgumentOf(lines[1]))] >>

\* ---- C2 ----------------------------------------------------------------
\* "#" repeated level times, a space, the text
HeadingMarkup(node) ==
  repeat("#", parseInt(node.options.level)) \o " " \o node.content

\* the texts of the pieces, concatenated
RECURSIVE PartsText(_)
PartsText(ps) == IF ps = <<>> THEN "" ELSE ps[1].text \o PartsText(Tail(ps))

\* C2: of a node sequence with two or more headings, exactly the first heading
\* becomes a frontmatter block and every later heading is rendered as "#"
\* repeated level times, a space and the text; the output is made of these
\* pieces.
C2_OneFrontmatterFromFirstHeading ==
  Cardinality(HeadingsOf(nodes)) >= 2 =>
    /\ \A n \in 1..Len(parts) :
         IF n = Least(HeadingsOf(nodes))
           THEN /\ parts[n].frontmatter
                /\ parts[n].text = "---\ntitle: " \o nodes[n].content \o "\n---\n\n"
           ELSE /\ ~parts[n].frontmatter
                /\ nodes[n].type = "heading" =>
                     parts[n].text = HeadingMarkup(nodes[n]) \o "\n\n"
    /\ pc = "convert" => mdx = PartsText(parts)
    /\ pc = "done" => mdx = trim(PartsText(parts)) /\ Len(parts) = Len(nodes)

\* three headings were rendered, the second and the third as markup
C2_Witness ==
  /\ pc = "done"
  /\ Cardinality(HeadingsOf(nodes)) = 3
  /\ nodes[1] = nodes[2]
  /\ Cardinality({n \in 1..Len(parts) : parts[n].frontmatter}) = 1

\* ---- C3 ----------------------------------------------------------------
\* C3: when the node sequence holds a heading, the output begins with the
\* frontmatter block of the first heading, also when other nodes precede it.
C3_FrontmatterAtTop ==
  (pc = "done" /\ HeadingsOf(nodes) # {}) =>
    startsWith(mdx, "---\ntitle: " \o nodes[Least(HeadingsOf(nodes))].content \o "\n---")

\* ---- C4 ----------------------------------------------------------------
\* C4: every iteration of the main loop of parseRST strictly increases the line
\* cursor, which stays within one line past the end of the input, and pushes at
\* most one node.
C4_CursorAdvances ==
  [][(pc = "parse" /\ pc' = "parse") =>
       /\ i' > i
       /\ i' <= Len(lines) + 1
       /\ Len(nodes') <= Len(nodes) + 1]_vars

\* the main loop has run a directive fallback and a paragraph to the end of input
C4_Witness ==
  /\ pc = "parse"
  /\ i = Len(lines) + 1
  /\ Len(nodes) >= 2
  /\ startsWith(lines[1], ".. code-block")

\* ---- C5 ----------------------------------------------------------------
\* the level of each underline character of the fixed table
LevelTable ==
  [c \in {"=", "-", BT, "~", ":", "*", "'", "+", "\"", "^"} |->
     CASE c = "=" -> "1"
       [] c = "-" -> "2"
       [] c \in {BT, "~"} -> "3"
       [] c \in {":", "*"} -> "4"
       [] c \in {"'", "+"} -> "5"
       [] c \in {"\"", "^"} -> "6"]

\* the main loop is at a text line followed by a line of three or more of one
\* accepted underline character
AtUnderlinedText ==
  /\ pc = "parse" /\ i + 1 < Len(lines)
  /\ trim(LineAt(lines, i)) # ""
  /\ Len(trim(LineAt(lines, i + 1))) >= 3
  /\ \E c \in UnderlineChars :
       trim(LineAt(lines, i + 1)) = repeat(c, Len(trim(LineAt(lines, i + 1))))

\* C5: a text line followed by a line of three or more of one underline
\* character yields a Heading node with the level of the table, level 2 for an
\* accepted character outside the table; the level of every Heading node is
\* the string of an integer in 1..6.
C5_HeadingLevels ==
  [][/\ AtUnderlinedText =>
          nodes' = Append(nodes,
            [type |-> "heading", content |-> trim(LineAt(lines, i)),
             options |-> Option1("level",
               With(Char(trim(LineAt(lines, i + 1)), 1), LAMBDA c :
                 IF c \in DOMAIN LevelTable THEN LevelTable[c] ELSE "2"))])
     /\ \A n \in HeadingsOf(nodes') :
          nodes'[n].options.level \in {"1", "2", "3", "4", "5", "6"}]_vars

\* a heading underlined with a character outside the table was pushed
C5_Witness ==
  /\ Len(nodes) >= 1
  /\ nodes[1].type = "heading"
  /\ nodes[1].options.level = "2"
  /\ \E n \in 1..Len(lines) : lines[n] = "###"

\* ---- C6 ----------------------------------------------------------------
AdmonitionInput(ls) ==
  \E name \in AdmonitionNames : startsWith(ls[1], ".. " \o name \o "::")

\* no indented content follows the directive line
NoIndentedContent(ls) ==
  Len(dense(ls)) = 1 \/ LeadingSpace(dense(ls)[2]) = 0

\* C6: a note, warning, danger or tip directive line yields an Admonition node
\* whose kind is the directive name, with empty content when no indented
\* content follows; an image directive without content yields an Image node
\* whose content is the argument.
C6_AdmonitionKind ==
  Parsed =>
    /\ AdmonitionInput(lines) =>
         /\ nodes # <<>>
         /\ nodes[1].type = "admonition"
         /\ \E name \in AdmonitionNames :
              /\ startsWith(lines[1], ".. " \o name \o "::")
              /\ nodes[1].options = Option1("kind", name)
         /\ NoIndentedContent(lines) => nodes[1].content = ""
    /\ (startsWith(lines[1], ".. image::") /\ NoIndentedContent(lines)) =>
         /\ nodes # <<>>
         /\ nodes[1].type = "image"
         /\ nodes[1].content = ArgumentOf(lines[1])

\* ---- C7 ----------------------------------------------------------------
\* the lines are items of one marker type, possibly with blank lines between
ListInput(ls, pattern) ==
  /\ dense(ls) # <<>>
  /\ \A n \in 1..Len(ls) :
       trim(ls[n]) = "" \/ markerLength(trim(ls[n]), pattern) > 0

\* C7: a list of items of one marker type parses to the same single list node,
\* with one child per item, whether or not blank lines separate its items.
C7_BlankLinesInsideList ==
  \A pattern \in {BulletPattern, EnumPattern} :
    (Parsed /\ ListInput(lines, pattern)) =>
      /\ nodes = parseRST(dense(lines))
      /\ Len(nodes) = 1
      /\ nodes[1].type = (IF pattern = EnumPattern THEN "orderedList" ELSE "unorderedList")
      /\ Len(nodes[1].children) = Len(dense(lines))

\* a bullet list with a blank line between two items was parsed
C7_Witness ==
  /\ Parsed
  /\ ListInput(lines, BulletPattern)
  /\ Len(lines) >= 3 /\ lines[2] = "" /\ lines[1] # "" /\ lines[3] # ""
  /\ Len(nodes[1].children) >= 2

\* ---- C8 ----------------------------------------------------------------
\* the text is one :ref: role whose content is  display <class_Name> trailing
ClassReferenceInput(s) ==
  /\ startsWith(s, ":ref:" \o BT)
  /\ RunNotIn(s, 7, {BT}) = Len(s) - 7
  /\ Char(s, Len(s)) = BT
  /\ includes(s, " <class_")
  /\ includes(s, ">")

\* C8: a :ref: role of the shape  display <class_Name> trailing  becomes the
\* link [display](/engine/classes/<class_Name lowercased>), and the trailing
\* text is kept after the link; without trailing text the result is the link.
C8_ClassReferenceKeepsTrailingText ==
  (pc = "returned" /\ ClassReferenceInput(text)) =>
    With(indexOfFrom(text, " <class_", 1), LAMBDA lt :
    With(indexOfFrom(text, ">", 1), LAMBDA gt :
    With("[" \o trim(Sub(text, 7, lt - 1)) \o "](/engine/classes/"
         \o toLowerCase(Sub(text, lt + 2, gt - 1)) \o ")", LAMBDA link :
    With(trim(Sub(text, gt + 1, Len(text) - 1)), LAMBDA trailing :
      /\ startsWith(processedText, link)
      /\ trailing = "" => processedText = link
      /\ includes(From(processedText, Len(link) + 1), trailing)))))

\* ---- C9 ----------------------------------------------------------------
\* C9: once processInlineMarkup has returned, the output holds the stored
\* rendering of every protected link span and no placeholder token.
C9_PlaceholdersResolved ==
  pc = "returned" =>
    /\ \A n \in 1..Len(processed) : includes(processedText, processed[n][2])
    /\ ~includes(processedText, "__LINK_")

\* ---- C10 ---------------------------------------------------------------
\* what a piece adds to the output, without the blank line that ends it
BlockOf(piece) ==
  IF Len(piece.text) >= 2 /\ From(piece.text, Len(piece.text) - 1) = "\n\n"
    THEN Sub(piece.text, 1, Len(piece.text) - 2) ELSE piece.text

\* C10: the output has no leading or trailing whitespace, and its blocks are
\* separated by exactly one blank line, also when a node renders to the empty
\* string.
C10_OneBlankLineBetweenBlocks ==
  pc = "done" =>
    /\ mdx = trim(mdx)
    /\ mdx = join(SelectSeq([n \in 1..Len(parts) |-> BlockOf(parts[n])],
                            LAMBDA b : b # ""), "\n\n")

\* ---- C11 ---------------------------------------------------------------
\* the kind an admonition container is to carry for node
AllowedKind(node) ==
  IF "options" \in DOMAIN node /\ "kind" \in DOMAIN node.options
     /\ node.options.kind \in {"note", "warning", "danger", "tip"}
    THEN node.options.kind ELSE "note"

\* C11: the kind written into the container rendered for an Admonition node is
\* one of note, warning, danger and tip: the node's kind when it is one of
\* them, the default kind note otherwise.
C11_AdmonitionKindAllowed ==
  \A n \in 1..Len(parts) :
    nodes[n].type = "admonition" =>
      \/ startsWith(parts[n].text, "<Admonition type=\"" \o AllowedKind(nodes[n]) \o "\"")
      \/ startsWith(parts[n].text, ":::" \o AllowedKind(nodes[n]) \o "\n")

\* ---- C12 ---------------------------------------------------------------
\* the main loop is at a line indented by four spaces or more that follows a
\* blank line or starts the document, and no recognizer before the literal
\* block matches
AtIndentedBlock ==
  /\ pc = "parse" /\ i < Len(lines)
  /\ ~IsBlankLine(lines, i)
  /\ startsWith(LineAt(lines, i), "    ")
  /\ i = 0 \/ IsBlankLine(lines, i - 1)
  /\ ~AtHeading(lines, i) /\ ~AtDirective(lines, i)
  /\ ~AtBullet(lines, i) /\ ~AtEnumerated(lines, i)

\* C12: at such a line the parser pushes a CodeBlock node with language "text"
\* whose content begins with the line less its four spaces, not a Paragraph.
C12_IndentedBlockIsCodeBlock ==
  [][AtIndentedBlock =>
       /\ Len(nodes') = Len(nodes) + 1
       /\ nodes'[Len(nodes')].type = "codeBlock"
       /\ nodes'[Len(nodes')].options = Option1("language", "text")
       /\ startsWith(nodes'[Len(nodes')].content, trim(substring(LineAt(lines, i), 4)))]_vars

\* ---- C13 ---------------------------------------------------------------
\* the main loop is at a line that is not blank
AtContentLine == pc = "parse" /\ i < Len(lines) /\ ~IsBlankLine(lines, i)

\* the node the step pushed
Pushed == nodes'[Len(nodes')]

\* C13 as stated: a line that matches the bullet marker pattern and is followed
\* on the next line by a heading underline is taken as a bullet list item, not
\* as a Heading.
C13_BulletBeforeUnderline ==
  [][(AtContentLine /\ AtBullet(lines, i) /\ AtHeading(lines, i)) =>
       /\ Len(nodes') = Len(nodes) + 1
       /\ Pushed.type = "unorderedList"]_vars

\* C13 amended: at every line that is not blank the heading, directive, bullet
\* and enumerated recognizers are tried in this order and the first that
\* matches produces the node; a bullet line followed by a heading underline is
\* therefore a Heading whose text is the bullet line.
C13_FirstMatchWins ==
  [][AtContentLine =>
       /\ Len(nodes') = Len(nodes) + 1
       /\ IF AtHeading(lines, i)
            THEN Pushed.type = "heading" /\ Pushed.content = trim(LineAt(lines, i))
          ELSE IF AtDirective(lines, i)
            THEN Pushed.type \in {"codeBlock", "image", "admonition", "directive", "paragraph"}
          ELSE IF AtBullet(lines, i) THEN Pushed.type = "unorderedList"
          ELSE IF AtEnumerated(lines, i) THEN Pushed.type = "orderedList"
          ELSE Pushed.type \in {"codeBlock", "paragraph"}]_vars

\* a bullet line over an underline became a heading
C13_Witness ==
  \E n \in 1..Len(nodes) :
    /\ nodes[n].type = "heading"
    /\ nodes[n].content = "+ c"
    /\ nodes[n].options.level = "1"

\* ---- C14 ---------------------------------------------------------------
\* a list item's content rendered the way a Paragraph of the same content is
AsParagraph(item, width) ==
  convertParagraph([type |-> "paragraph", content |-> contentOf(item)], width)

\* the lines of a list whose items are reflowed like paragraphs
ReflowedItems(node, width) ==
  [n \in 1..Len(node.children) |->
     (IF node.type = "orderedList" THEN toString(n) \o ". " ELSE "- ")
     \o AsParagraph(node.children[n], width)]

\* C14: a ListItem child of an UnorderedList or OrderedList is rendered with
\* its content reflowed to the configured width exactly as a Paragraph of the
\* same content is; for a width <= 0 both give the content unchanged.
C14_ListItemReflowedLikeParagraph ==
  \A n \in 1..Len(parts) :
    (nodes[n].type \in {"unorderedList", "orderedList"} /\ "children" \in DOMAIN nodes[n]) =>
      BlockOf(parts[n]) = join(ReflowedItems(nodes[n], wrapWidth), "\n")

\* ---- C15 ---------------------------------------------------------------
\* the lines a..b-1 (0-based) that are not blank
NonBlankIn(a, b) == {n \in a..(b - 1) : n < Len(lines) /\ ~IsBlankLine(lines, n)}

\* the lines a..b-1 are the range of the root node: each line of the range that
\* is not blank is a line of the node, by the node's type
RangeOf(node, a, b) ==
  CASE node.type = "heading" ->
         /\ b = a + 2
         /\ NonBlankIn(a, b) = {a, a + 1}
         /\ node.content = trim(LineAt(lines, a))
    [] node.type = "paragraph" ->
         \/ /\ AtDirective(lines, a)
            /\ b = a + 1
            /\ node.content = trim(LineAt(lines, a))
         \/ /\ NonBlankIn(a, b) = a..(b - 2)
            /\ b - 1 = Len(lines) \/ IsBlankLine(lines, b - 1)
    [] node.type \in {"unorderedList", "orderedList"} ->
         /\ \A n \in NonBlankIn(a, b) :
              markerLength(trim(LineAt(lines, n)),
                           IF node.type = "orderedList" THEN EnumPattern ELSE BulletPattern) > 0
         /\ Len(node.children) = Cardinality(NonBlankIn(a, b))
         /\ b - 1 \in NonBlankIn(a, b)
    [] OTHER ->
         /\ AtDirective(lines, a)
         /\ \A n \in NonBlankIn(a + 1, b) : IsSpace(Char(LineAt(lines, n), 1))
         /\ NonBlankIn(a + 1, b) = {} =>
              \/ b = Len(lines)
              \/ ~IsBlankLine(lines, b) /\ ~IsSpace(Char(LineAt(lines, b), 1))

\* C15: after the leading skip each step of the main loop consumes the lines
\* i..i'-1, the next step starts at i', a step that pushes no node passes one
\* blank line only, and a step at a line that is not blank pushes exactly one
\* root node whose range these lines are: the ranges are disjoint, increasing
\* and cover the input, every line that is not blank lies in the range of
\* exactly one root node. The paragraph's range ends one past its terminating
\* blank line, the range of a directive without indented content ends before
\* the first line that is not indented.
C15_RangesPartitionInput ==
  [][(pc = "parse" /\ pc' = "parse") =>
       /\ i < i' /\ i' <= Len(lines) + 1
       /\ IF IsBlankLine(lines, i)
            THEN i' = i + 1 /\ nodes' = nodes
            ELSE /\ Len(nodes') = Len(nodes) + 1
                 /\ SubSeq(nodes', 1, Len(nodes)) = nodes
                 /\ RangeOf(nodes'[Len(nodes')], i, i')]_vars

\* a paragraph ended one past its blank line and the next recognizer took over
\* at the first line after it
C15_Witness ==
  /\ Parsed
  /\ Len(lines) = 3 /\ lines[2] = "" /\ lines[1] # "" /\ lines[3] # ""
  /\ Len(nodes) = 2
  /\ nodes[1].type = "paragraph"
  /\ nodes[2].type = "unorderedList"

====
